---- MODULE Spec2Model ----
(***************************************************************************)
(* EnhancedTTSClient (src/unnamed/part_000): the speech queue coordinator  *)
(* in front of window.speechSynthesis, together with the browser's event   *)
(* loop (timers, microtasks, engine callbacks, voiceschanged events).      *)
(*                                                                         *)
(* Strings the code inspects character by character (voice names,          *)
(* language tags) are sequences of one-character strings.  Rates, pitches  *)
(* and volumes are in hundredths (0.9 is 90).                              *)
(***************************************************************************)
EXTENDS Integers, Sequences, FiniteSets, TLC

(* ------------------------------ bounds -------------------------------- *)

\* speak() calls made in one behaviour of the queue specification
MaxSpeak == 3
\* of these, the speak() calls made before the client is initialized
MaxEarlySpeak == 2
\* speak() calls made in one behaviour of the voice specification
MaxVoiceSpeak == 1
\* explicit initialize() calls made after the constructor's
MaxInitCalls == 1
\* changes of the engine's voice list (voiceschanged events)
MaxVoiceChanges == 1
\* speak() calls made in one behaviour of the text specification
MaxEnhanceSpeak == 1
\* speak() calls made in one behaviour of the control specification
MaxControlSpeak == 2
\* speak() calls made in one behaviour of the sign type specification
MaxSignSpeak == 2
\* detections the coordination server caches in one behaviour
MaxDetect == 22
\* of these, the first that may come with a confidence under the threshold
MaxLowConfidence == 1
\* GET /api/get-text and POST /api/clear-cache requests received
MaxTextOrClear == 1
\* requests waiting for the Python API at one time
MaxPending == 1
\* speak() calls made in one behaviour of the control panel specification
MaxPanelSpeak == 2

(* ------------------------------ strings ------------------------------- *)

UpperChars == <<"A","B","C","D","E","F","G","H","I","J","K","L","M","N","O","P","Q","R","S","T","U","V","W","X","Y","Z">>
LowerChars == <<"a","b","c","d","e","f","g","h","i","j","k","l","m","n","o","p","q","r","s","t","u","v","w","x","y","z">>

\* the lower-case letter of each upper-case letter
LowerOf ==
  [c \in { UpperChars[i] : i \in 1..Len(UpperChars) } |->
     LowerChars[CHOOSE i \in 1..Len(UpperChars) : UpperChars[i] = c]]

\* String.prototype.toLowerCase, one character
ToLowerChar(c) ==
  IF c \in DOMAIN LowerOf THEN LowerOf[c] ELSE c

\* String.prototype.toLowerCase
ToLowerCase(str) == [i \in 1..Len(str) |-> ToLowerChar(str[i])]

\* String.prototype.includes
Includes(str, sub) ==
  \E i \in 0..(Len(str) - Len(sub)) : SubSeq(str, i + 1, i + Len(sub)) = sub

\* String.prototype.startsWith
StartsWith(str, pre) ==
  Len(pre) <= Len(str) /\ SubSeq(str, 1, Len(pre)) = pre

\* the values undefined and null
Undefined == [undefined |-> TRUE]
Null == [null |-> TRUE]

\* Array.prototype.find: the first element of arr the callback accepts
\* (hits[i] is the callback's result on arr[i]), undefined if none
Find(arr, hits) ==
  IF \E i \in 1..Len(arr) : hits[i]
  THEN arr[CHOOSE i \in 1..Len(arr) : hits[i] /\ \A j \in 1..(i - 1) : ~hits[j]]
  ELSE Undefined

(* --------------------------- voice catalog ---------------------------- *)

preferredVoices == <<
  <<"G","o","o","g","l","e"," ","U","S"," ","E","n","g","l","i","s","h">>,
  <<"M","i","c","r","o","s","o","f","t"," ","Z","i","r","a"," ","-"," ","E","n","g","l","i","s","h"," ","(","U","n","i","t","e","d"," ","S","t","a","t","e","s",")">>,
  <<"M","i","c","r","o","s","o","f","t"," ","D","a","v","i","d"," ","-"," ","E","n","g","l","i","s","h"," ","(","U","n","i","t","e","d"," ","S","t","a","t","e","s",")">>,
  <<"A","l","e","x">>,
  <<"S","a","m","a","n","t","h","a">>,
  <<"K","a","r","e","n">>,
  <<"M","o","i","r","a">> >>

\* SpeechSynthesisVoice objects the engine may list
VoiceAmelie == [name |-> <<"A","m","e","l","i","e">>, lang |-> <<"f","r","-","F","R">>,
                localService |-> TRUE, default |-> TRUE]
VoiceKaren  == [name |-> <<"K","a","r","e","n">>, lang |-> <<"e","n","-","A","U">>,
                localService |-> TRUE, default |-> FALSE]
VoiceAlex   == [name |-> <<"a","l","e","x">>, lang |-> <<"e","n","-","U","S">>,
                localService |-> FALSE, default |-> FALSE]
VoiceDaniel == [name |-> <<"D","a","n","i","e","l">>, lang |-> <<"e","n","-","G","B">>,
                localService |-> TRUE, default |-> FALSE]

\* what synthesis.getVoices() may return: nothing yet, or one of two lists
CatalogA == <<VoiceAmelie, VoiceKaren, VoiceAlex>>
CatalogB == <<VoiceAmelie, VoiceDaniel>>
Catalogs == {CatalogA, CatalogB}

\* more voices, for the lists voice selection is checked on: English but
\* not local, a second voice named Karen, a preferred name inside a longer
\* name, a local voice that is neither preferred nor English
VoiceFiona  == [name |-> <<"F","i","o","n","a">>, lang |-> <<"e","n","-","G","B">>,
                localService |-> FALSE, default |-> FALSE]
VoiceKaren2 == [name |-> <<"K","a","r","e","n">>, lang |-> <<"e","n","-","U","S">>,
                localService |-> FALSE, default |-> FALSE]
VoiceGoogle == [name |-> <<"G","o","o","g","l","e"," ","U","S"," ","E","n","g","l","i","s","h"," ","F","e","m","a","l","e">>, lang |-> <<"e","n","-","U","S">>,
                localService |-> FALSE, default |-> FALSE]
VoiceHans   == [name |-> <<"H","a","n","s">>, lang |-> <<"d","e","-","D","E">>,
                localService |-> TRUE, default |-> FALSE]
VoicePool ==
  { VoiceAmelie, VoiceKaren, VoiceAlex, VoiceDaniel, VoiceFiona, VoiceKaren2,
    VoiceGoogle, VoiceHans }

\* every list of one, two or three different voices of the pool
SelectCatalogs ==
  { vs \in { <<a>> : a \in VoicePool }
            \cup { <<a, b>> : a \in VoicePool, b \in VoicePool }
            \cup { <<a, b, c>> : a \in VoicePool, b \in VoicePool, c \in VoicePool } :
      \A i, j \in 1..Len(vs) : i # j => vs[i] # vs[j] }

\* the names setVoice() is called with in the selection specification: a
\* name two voices have, its lower-case form, a part of it, a name one voice
\* has, a name no voice has
SelectNames ==
  { <<"K","a","r","e","n">>, <<"k","a","r","e","n">>, <<"K","a","r">>, <<"D","a","n","i","e","l">>, <<"N","o","b","o","d","y">> }

\* the names setVoice() is called with
VoiceNames ==
  { <<"K","a","r","e","n">>, <<"k","a","r","e","n">>, <<"A","m","e","l","i","e">>,
    <<"N","o","n","e","x","i","s","t","e","n","t","V","o","i","c","e","X","Y","Z">> }

\* the match of one preferred name (the arrow function of voices.find)
MatchesPreferred(v, preferred) ==
  Includes(v.name, preferred) \/ Includes(ToLowerCase(v.name), ToLowerCase(preferred))

RECURSIVE PreferredFrom(_, _)
\* the for-of loop over preferredVoices from index k on
PreferredFrom(vs, k) ==
  IF k > Len(preferredVoices) THEN Undefined
  ELSE LET voice == Find(vs, [i \in 1..Len(vs) |->
                                    MatchesPreferred(vs[i], preferredVoices[k])])
       IN IF voice # Undefined THEN voice ELSE PreferredFrom(vs, k + 1)

\* the fallback find accepting English voices that are not local
IsEnglishLocal_AnyEnglish(v) == StartsWith(v.lang, <<"e","n">>)

\* the fallback find: first English voice that is local
IsEnglishLocal(v) == StartsWith(v.lang, <<"e","n">>) /\ v.localService

\* selectBestVoice with the loops exchanged: the first voice of the list
\* that matches any preferred name
SelectBestVoice_CatalogFirst(vs) ==
  LET preferred == Find(vs, [i \in 1..Len(vs) |->
                               \E k \in 1..Len(preferredVoices) :
                                 MatchesPreferred(vs[i], preferredVoices[k])])
      englishVoice == Find(vs, [i \in 1..Len(vs) |-> IsEnglishLocal(vs[i])])
  IN IF preferred # Undefined THEN preferred
     ELSE IF englishVoice # Undefined THEN englishVoice
     ELSE IF Len(vs) > 0 THEN vs[1] ELSE Undefined

\* selectBestVoice: the value it assigns to currentVoice for this.voices = vs
SelectBestVoice(vs) ==
  LET preferred == PreferredFrom(vs, 1)
      englishVoice == Find(vs, [i \in 1..Len(vs) |-> IsEnglishLocal(vs[i])])
  IN IF preferred # Undefined THEN preferred
     ELSE IF englishVoice # Undefined THEN englishVoice
     ELSE IF Len(vs) > 0 THEN vs[1] ELSE Undefined

\* selectBestVoice on each list getVoices() may return, computed once
SelectedVoice == [vs \in Catalogs \cup SelectCatalogs |-> SelectBestVoice(vs)]

(* ----------------------- configuration tables ------------------------- *)

\* a signType of null (the default parameter value)
NullSign == "<null>"

\* this.emotionalContexts
emotionalContexts ==
  [hello     |-> [rate |-> 100, pitch |-> 110, volume |-> 95, tone |-> "friendly"],
   thank_you |-> [rate |-> 80,  pitch |-> 90,  volume |-> 85, tone |-> "grateful"],
   sorry     |-> [rate |-> 70,  pitch |-> 80,  volume |-> 80, tone |-> "apologetic"],
   help      |-> [rate |-> 90,  pitch |-> 100, volume |-> 95, tone |-> "urgent"],
   please    |-> [rate |-> 80,  pitch |-> 90,  volume |-> 85, tone |-> "polite"],
   love      |-> [rate |-> 75,  pitch |-> 95,  volume |-> 90, tone |-> "warm"],
   good      |-> [rate |-> 95,  pitch |-> 105, volume |-> 90, tone |-> "positive"],
   bad       |-> [rate |-> 85,  pitch |-> 90,  volume |-> 85, tone |-> "concerned"]]

\* property names every object literal inherits from Object.prototype, and
\* what reading one of them yields: an object with none of the fields rate,
\* pitch, volume, tone
ObjectPrototypeNames == { "constructor", "toString", "valueOf", "hasOwnProperty", "__proto__" }
ObjectPrototypeMember == [inherited |-> TRUE]

\* this.emotionalContexts[signType]: an own entry, an inherited member, or
\* undefined
ContextOf(signType) ==
  IF signType \in DOMAIN emotionalContexts THEN emotionalContexts[signType]
  ELSE IF signType \in ObjectPrototypeNames THEN ObjectPrototypeMember
  ELSE Undefined

\* signType && this.emotionalContexts[signType]
HasContext(signType) ==
  signType \notin {NullSign, ""} /\ ContextOf(signType) # Undefined

\* this.voiceSettings as the constructor sets it
DefaultVoiceSettings == [rate |-> 90, pitch |-> 100, volume |-> 90, pauseBetween |-> 500]

\* the arguments speak() is called with
Texts == { <<"H","i">> }
SignTypes == { NullSign, "love" }
Priorities == { "normal", "urgent" }

(* -------------------------- text enhancement -------------------------- *)

RECURSIVE ReplaceAll(_, _, _)
\* String.prototype.replace with a global one-character pattern: every
\* occurrence of character ch in str becomes the string by
ReplaceAll(str, ch, by) ==
  IF str = <<>> THEN <<>>
  ELSE (IF Head(str) = ch THEN by ELSE <<Head(str)>>) \o ReplaceAll(Tail(str), ch, by)

\* the template literals of the switch on tone
HelloThere == <<"H","e","l","l","o"," ","t","h","e","r","e","!"," ">>
ReallyAppreciate == <<"."," ","I"," ","r","e","a","l","l","y"," ","a","p","p","r","e","c","i","a","t","e"," ","i","t",".">>
Im == <<"I","'","m"," ">>
PleaseForgive == <<"."," ","P","l","e","a","s","e"," ","f","o","r","g","i","v","e"," ","m","e",".">>
INeed == <<"I"," ","n","e","e","d"," ">>
CanYouHelp == <<"."," ","C","a","n"," ","y","o","u"," ","h","e","l","p"," ","m","e","?">>
WouldThatBePossible == <<"."," ","W","o","u","l","d"," ","t","h","a","t"," ","b","e"," ","p","o","s","s","i","b","l","e","?">>
IPrefix == <<"I"," ">>
YouSoMuch == <<" ","y","o","u"," ","s","o"," ","m","u","c","h",".">>
Thats == <<"T","h","a","t","'","s"," ">>
Excellent == <<"!"," ","E","x","c","e","l","l","e","n","t","!">>
ImWorried == <<"."," ","I","'","m"," ","w","o","r","r","i","e","d"," ","a","b","o","u","t"," ","t","h","i","s",".">>

\* context.tone ("" stands for undefined: no case of the switch matches it)
ToneOf(signType) ==
  IF "tone" \in DOMAIN ContextOf(signType) THEN ContextOf(signType).tone ELSE ""

\* the switch on tone interpolating a lower-case copy of the text
ToneTemplate_LowerCase(text, tone) ==
  CASE tone = "friendly"   -> HelloThere \o ToLowerCase(text)
    [] tone = "grateful"   -> ToLowerCase(text) \o ReallyAppreciate
    [] tone = "apologetic" -> Im \o ToLowerCase(text) \o PleaseForgive
    [] tone = "urgent"     -> INeed \o ToLowerCase(text) \o CanYouHelp
    [] tone = "polite"     -> ToLowerCase(text) \o WouldThatBePossible
    [] tone = "warm"       -> IPrefix \o ToLowerCase(text) \o YouSoMuch
    [] tone = "positive"   -> Thats \o ToLowerCase(text) \o Excellent
    [] tone = "concerned"  -> Thats \o ToLowerCase(text) \o ImWorried
    [] OTHER               -> text

\* the switch on tone: the text with its template applied
ToneTemplate(text, tone) ==
  CASE tone = "friendly"   -> HelloThere \o text
    [] tone = "grateful"   -> text \o ReallyAppreciate
    [] tone = "apologetic" -> Im \o text \o PleaseForgive
    [] tone = "urgent"     -> INeed \o text \o CanYouHelp
    [] tone = "polite"     -> text \o WouldThatBePossible
    [] tone = "warm"       -> IPrefix \o text \o YouSoMuch
    [] tone = "positive"   -> Thats \o text \o Excellent
    [] tone = "concerned"  -> Thats \o text \o ImWorried
    [] OTHER               -> text

\* the replace() calls with the periods of the result expanded once more
ExpandPunctuation_Reexpand(str) ==
  ReplaceAll(ReplaceAll(ReplaceAll(ReplaceAll(str, ".", <<".",".","."," ">>),
                                   "!", <<"!"," ">>),
                        "?", <<"?"," ">>),
             ".", <<".",".","."," ">>)

\* the three replace() calls, in the order of the code
ExpandPunctuation(str) ==
  ReplaceAll(ReplaceAll(ReplaceAll(str, ".", <<".",".","."," ">>),
                        "!", <<"!"," ">>),
             "?", <<"?"," ">>)

\* enhanceTextForSpeech without the replace() of exclamation marks
EnhanceTextForSpeech_NoExclamation(text, signType) ==
  LET enhancedText == IF HasContext(signType)
                      THEN ToneTemplate(text, ToneOf(signType))
                      ELSE text
  IN ReplaceAll(ReplaceAll(enhancedText, ".", <<".",".","."," ">>), "?", <<"?"," ">>)

\* enhanceTextForSpeech expanding the punctuation of the text before it
\* applies the template
EnhanceTextForSpeech_ExpandFirst(text, signType) ==
  IF HasContext(signType)
  THEN ToneTemplate(ExpandPunctuation(text), ToneOf(signType))
  ELSE ExpandPunctuation(text)

\* enhanceTextForSpeech
EnhanceTextForSpeech(text, signType) ==
  LET enhancedText == IF HasContext(signType)
                      THEN ToneTemplate(text, ToneOf(signType))
                      ELSE text
  IN ExpandPunctuation(enhancedText)

\* the texts and sign types the text specification calls speak() with
\* ("wave" has no entry in emotionalContexts)
HiBye == <<"H","i","."," ","B","y","e","!">>
IAmHappy == <<"I"," ","a","m"," ","h","a","p","p","y",".">>
EnhanceTexts ==
  { HiBye, IAmHappy, <<>>, <<"H","i">>, <<".">>, <<"!">>, <<"?">>, <<".",".">>,
    <<"a",".","b">>, <<"N","o","!","?">>, <<"O","k","."," ","G","o","?">>,
    <<"1",".","5","!","!">> }
EnhanceSigns ==
  { NullSign, "", "wave", "hello", "thank_you", "sorry", "help", "please", "love",
    "good", "bad" }

\* one sign type of each kind: none, a configured key, a tag that is no
\* property of emotionalContexts, a tag that is an inherited property
SignKinds == { NullSign, "love", "wave", "constructor" }

(* ------------------------------- state -------------------------------- *)

VARIABLES
  \* EnhancedTTSClient fields
  voices, currentVoice, isInitialized, speechQueue, isSpeaking, voiceSettings,
  \* window.speechSynthesis: the list getVoices() returns, the onvoiceschanged
  \* property (-1 undefined, 0 null, k the loadVoices closure of initialize()
  \* call k), the utterances it holds (head is being spoken), and the number
  \* of utterances removed by cancel() whose end or error event is still to
  \* be fired (the handlers do not read which utterance an event is for),
  \* and whether pause() has put it in the paused state
  catalog, onvoiceschanged, engineQueue, cancelled, paused,
  \* event loop: one entry per initialize() call (its setTimeout(loadVoices)
  \* pending, its promise resolved, the speak() item awaiting it), the speak()
  \* continuations queued as microtasks, and the pending
  \* setTimeout(processQueue, pauseBetween) timers
  loops, microtasks, pauseTimers,
  \* console: whether the operation that ran last called console.error
  consoleError,
  \* history: the speak() calls made, the ids handed to synthesis.speak in
  \* order, the ids dropped from speechQueue, explicit initialize() calls,
  \* voiceschanged events, and the last operation with its argument and
  \* return value
  calls, submitted, discarded, nInit, nChanges, lastOp,
  \* coordination server: the detectionCache object, the requests whose
  \* handler awaits the Python API (by route), and the number of timestamps
  \* the time, which a timestamp copies (it advances with each detection
  \* cached; 0 is the null timestamp), and, as history, the get-text and
  \* clear-cache requests received
  detectionCache, pending, clock, received,
  \* TTSControlPanel: its React state (status, voices), and, as history, the
  \* utterance the engine was speaking when the button last called pause()
  \* (0 for none) with whether isSpeaking was then already false or an event
  \* of a cancelled utterance was still to come, and whether the button had
  \* paused that utterance before
  panel, pressed

vars == <<voices, currentVoice, isInitialized, speechQueue, isSpeaking, voiceSettings,
          catalog, onvoiceschanged, engineQueue, cancelled, paused,
          loops, microtasks, pauseTimers, consoleError,
          calls, submitted, discarded, nInit, nChanges, lastOp,
          detectionCache, pending, clock, received, panel, pressed>>

\* the state outside the client and the engine
serverVars == <<detectionCache, pending, clock, received>>
panelVars == <<panel, pressed>>

\* the fields of the client, as getStatus() and the idempotence claim see them
clientVars == <<voices, currentVoice, isInitialized, speechQueue, isSpeaking, voiceSettings>>

\* everything the operations read or write, as one record (consoleError
\* is about one operation: each starts with it false)
Cur ==
  [voices |-> voices, currentVoice |-> currentVoice, isInitialized |-> isInitialized,
   speechQueue |-> speechQueue, isSpeaking |-> isSpeaking, voiceSettings |-> voiceSettings,
   catalog |-> catalog, onvoiceschanged |-> onvoiceschanged,
   engineQueue |-> engineQueue, cancelled |-> cancelled, paused |-> paused,
   loops |-> loops, microtasks |-> microtasks, pauseTimers |-> pauseTimers,
   consoleError |-> FALSE,
   calls |-> calls, submitted |-> submitted, discarded |-> discarded]

InstallClient(t) ==
  \E s \in {t} :
  /\ voices' = s.voices
  /\ currentVoice' = s.currentVoice
  /\ isInitialized' = s.isInitialized
  /\ speechQueue' = s.speechQueue
  /\ isSpeaking' = s.isSpeaking
  /\ voiceSettings' = s.voiceSettings
  /\ catalog' = s.catalog
  /\ onvoiceschanged' = s.onvoiceschanged
  /\ engineQueue' = s.engineQueue
  /\ cancelled' = s.cancelled
  /\ paused' = s.paused
  /\ consoleError' = s.consoleError
  /\ loops' = s.loops
  /\ microtasks' = s.microtasks
  /\ pauseTimers' = s.pauseTimers
  /\ calls' = s.calls
  /\ submitted' = s.submitted
  /\ discarded' = s.discarded

\* an operation of the client or an event of the engine: the server and the
\* panel are not touched
Install(t) ==
  /\ InstallClient(t)
  /\ UNCHANGED <<serverVars, panelVars>>

Ids(seq) == { seq[i].id : i \in 1..Len(seq) }
Range(seq) == { seq[i] : i \in 1..Len(seq) }

(* ----------------------------- operations ----------------------------- *)

\* createUtterance throws: `utterance.rate = context.rate` with context.rate
\* undefined (rate is a WebIDL float: a non-finite value is a TypeError)
CreateUtteranceThrows(speechItem) ==
  HasContext(speechItem.signType) /\ "rate" \notin DOMAIN ContextOf(speechItem.signType)

\* createUtterance reading the constructor's settings, not the current ones
CreateUtterance_ConstructorSettings(s, speechItem) ==
  LET ctx == IF HasContext(speechItem.signType)
             THEN ContextOf(speechItem.signType)
             ELSE DefaultVoiceSettings
  IN [id |-> speechItem.id,
      text |-> EnhanceTextForSpeech(speechItem.text, speechItem.signType),
      voice |-> IF s.currentVoice # Null THEN s.currentVoice ELSE Null,
      rate |-> ctx.rate, pitch |-> ctx.pitch, volume |-> ctx.volume]

\* createUtterance: the SpeechSynthesisUtterance built for a queue item
\* (the item's id stands for the object's identity)
CreateUtterance(s, speechItem) ==
  LET ctx == IF HasContext(speechItem.signType)
             THEN ContextOf(speechItem.signType)
             ELSE s.voiceSettings
  IN [id |-> speechItem.id,
      text |-> EnhanceTextForSpeech(speechItem.text, speechItem.signType),
      voice |-> IF s.currentVoice # Null THEN s.currentVoice ELSE Null,
      rate |-> ctx.rate, pitch |-> ctx.pitch, volume |-> ctx.volume]

\* synthesis.cancel(): every utterance leaves the engine's queue; the engine
\* may still fire an end or error event for each of them afterwards
EngineCancel(s) ==
  [s EXCEPT !.cancelled = @ + Len(s.engineQueue), !.engineQueue = <<>>]

\* processQueue taking the newest item (pop() for shift())
ProcessQueue_Lifo(s) ==
  IF Len(s.speechQueue) = 0 \/ s.isSpeaking THEN s
  ELSE LET speechItem == s.speechQueue[Len(s.speechQueue)]
       IN [s EXCEPT !.isSpeaking = TRUE,
                    !.speechQueue = SubSeq(@, 1, Len(@) - 1),
                    !.engineQueue = Append(@, CreateUtterance(s, speechItem)),
                    !.submitted = Append(@, speechItem.id)]

\* processQueue without the isSpeaking test of its guard
ProcessQueue_IgnoreSpeaking(s) ==
  IF Len(s.speechQueue) = 0 THEN s
  ELSE LET speechItem == Head(s.speechQueue)
       IN [s EXCEPT !.isSpeaking = TRUE,
                    !.speechQueue = Tail(@),
                    !.engineQueue = Append(@, CreateUtterance(s, speechItem)),
                    !.submitted = Append(@, speechItem.id)]

\* processQueue (when createUtterance throws, the async function ends
\* there: isSpeaking is set and the item shifted, nothing reaches the engine)
ProcessQueue(s) ==
  IF Len(s.speechQueue) = 0 \/ s.isSpeaking THEN s
  ELSE LET speechItem == Head(s.speechQueue)
       IN IF CreateUtteranceThrows(speechItem)
          THEN [s EXCEPT !.isSpeaking = TRUE,
                         !.speechQueue = Tail(@)]
          ELSE [s EXCEPT !.isSpeaking = TRUE,
                         !.speechQueue = Tail(@),
                         !.engineQueue = Append(@, CreateUtterance(s, speechItem)),
                         !.submitted = Append(@, speechItem.id)]

\* utterance.onend without the setTimeout(processQueue) call
OnEnd_NoTimer(s) ==
  [s EXCEPT !.isSpeaking = FALSE]

\* utterance.onend calling processQueue() at once, with no setTimeout
OnEnd_NoPause(s) ==
  ProcessQueue([s EXCEPT !.isSpeaking = FALSE])

\* utterance.onend
OnEnd(s) ==
  [s EXCEPT !.isSpeaking = FALSE, !.pauseTimers = @ + 1]

\* utterance.onerror waiting pauseBetween like onend
OnError_WithPause(s) ==
  [s EXCEPT !.consoleError = TRUE, !.isSpeaking = FALSE, !.pauseTimers = @ + 1]

\* utterance.onerror
OnError(s) ==
  ProcessQueue([s EXCEPT !.consoleError = TRUE, !.isSpeaking = FALSE])

\* the urgent branch without `this.speechQueue = []`
UrgentClear_KeepQueue(s) ==
  [EngineCancel(s) EXCEPT !.isSpeaking = FALSE]

\* the urgent branch of speak: cancel, empty the queue, clear isSpeaking
UrgentClear(s) ==
  [EngineCancel(s) EXCEPT !.discarded = @ \cup Ids(s.speechQueue),
                          !.speechQueue = <<>>,
                          !.isSpeaking = FALSE]

\* speak without the final processQueue() call
SpeakBody_NoStart(s, speechItem) ==
  LET s1 == IF speechItem.priority = "urgent" THEN UrgentClear(s) ELSE s
  IN [s1 EXCEPT !.speechQueue = Append(@, speechItem)]

\* speak putting the item at the front of the queue (unshift for push)
SpeakBody_Unshift(s, speechItem) ==
  LET s1 == IF speechItem.priority = "urgent" THEN UrgentClear(s) ELSE s
      s2 == [s1 EXCEPT !.speechQueue = <<speechItem>> \o @]
  IN IF ~s2.isSpeaking THEN ProcessQueue(s2) ELSE s2

\* speak, from the construction of speechItem on (what runs once the client
\* is initialized; Date.now() is stored and never read)
SpeakBody(s, speechItem) ==
  LET s1 == IF speechItem.priority = "urgent" THEN UrgentClear(s) ELSE s
      s2 == [s1 EXCEPT !.speechQueue = Append(@, speechItem)]
  IN IF ~s2.isSpeaking THEN ProcessQueue(s2) ELSE s2

\* stop without `this.isSpeaking = false`
StopOp_KeepSpeaking(s) ==
  [EngineCancel(s) EXCEPT !.discarded = @ \cup Ids(s.speechQueue),
                          !.speechQueue = <<>>]

\* stop dropping one queued item (shift() for `= []`)
StopOp_DropHead(s) ==
  [EngineCancel(s) EXCEPT !.discarded = IF s.speechQueue = <<>> THEN @
                                        ELSE @ \cup {Head(s.speechQueue).id},
                          !.speechQueue = IF @ = <<>> THEN @ ELSE Tail(@),
                          !.isSpeaking = FALSE]

\* stop
StopOp(s) ==
  [EngineCancel(s) EXCEPT !.discarded = @ \cup Ids(s.speechQueue),
                          !.speechQueue = <<>>,
                          !.isSpeaking = FALSE]

\* loadVoices without the setTimeout(loadVoices, 100) retry
LoadVoices_NoRetry(s, k) ==
  LET s1 == [s EXCEPT !.voices = s.catalog]
  IN IF Len(s1.voices) > 0
     THEN [s1 EXCEPT !.currentVoice = SelectedVoice[s1.voices],
                     !.isInitialized = TRUE,
                     !.loops[k].resolved = TRUE,
                     !.loops[k].waiter = Null,
                     !.microtasks = IF s.loops[k].waiter # Null
                                    THEN Append(@, s.loops[k].waiter) ELSE @]
     ELSE s1

\* loadVoices that marks the client initialized without selecting a voice
LoadVoices_NoSelect(s, k) ==
  LET s1 == [s EXCEPT !.voices = s.catalog]
  IN IF Len(s1.voices) > 0
     THEN [s1 EXCEPT !.isInitialized = TRUE,
                     !.loops[k].resolved = TRUE,
                     !.loops[k].waiter = Null,
                     !.microtasks = IF s.loops[k].waiter # Null
                                    THEN Append(@, s.loops[k].waiter) ELSE @]
     ELSE [s1 EXCEPT !.loops[k].timer = TRUE]

\* loadVoices, the closure of initialize() call k
LoadVoices(s, k) ==
  LET s1 == [s EXCEPT !.voices = s.catalog]
  IN IF Len(s1.voices) > 0
     THEN [s1 EXCEPT !.currentVoice = SelectedVoice[s1.voices],
                     !.isInitialized = TRUE,
                     !.loops[k].resolved = TRUE,
                     !.loops[k].waiter = Null,
                     !.microtasks = IF s.loops[k].waiter # Null
                                    THEN Append(@, s.loops[k].waiter) ELSE @]
     ELSE [s1 EXCEPT !.loops[k].timer = TRUE]

\* initialize, awaited by `waiter` (a speak() item, or Null)
InitializeOp(s, waiter) ==
  LET k == Len(s.loops) + 1
      s1 == [s EXCEPT !.loops = Append(@, [timer |-> FALSE, resolved |-> FALSE,
                                           waiter |-> waiter]),
                      !.onvoiceschanged = IF @ # -1 THEN k ELSE @]
  IN LoadVoices(s1, k)

\* speak
SpeakOp(s, speechItem) ==
  IF ~s.isInitialized THEN InitializeOp(s, speechItem) ELSE SpeakBody(s, speechItem)

\* the lookup of setVoice comparing names without regard to case
FindVoice_IgnoreCase(s, voiceName) ==
  Find(s.voices, [i \in 1..Len(s.voices) |->
                    ToLowerCase(s.voices[i].name) = ToLowerCase(voiceName)])

\* the lookup of setVoice accepting a name that contains voiceName
FindVoice_Substring(s, voiceName) ==
  Find(s.voices, [i \in 1..Len(s.voices) |-> Includes(s.voices[i].name, voiceName)])

\* the voice setVoice finds
FindVoice(s, voiceName) ==
  Find(s.voices, [i \in 1..Len(s.voices) |-> s.voices[i].name = voiceName])

\* setVoice: the state it leaves
SetVoiceOp(s, voiceName) ==
  IF FindVoice(s, voiceName) # Undefined
  THEN [s EXCEPT !.currentVoice = FindVoice(s, voiceName)]
  ELSE s

\* setVoice: its return value
SetVoiceRet(s, voiceName) == FindVoice(s, voiceName) # Undefined

\* pause that also clears isSpeaking
PauseOp_ClearSpeaking(s) ==
  [s EXCEPT !.paused = TRUE, !.isSpeaking = FALSE]

\* pause: synthesis.pause()
PauseOp(s) ==
  [s EXCEPT !.paused = TRUE]

\* resume: synthesis.resume()
ResumeOp(s) ==
  [s EXCEPT !.paused = FALSE]

\* object spread { ...a, ...b }
Spread(a, b) ==
  [f \in DOMAIN a \cup DOMAIN b |-> IF f \in DOMAIN b THEN b[f] ELSE a[f]]

\* updateSettings assigning the argument itself
UpdateSettingsOp_Replace(s, settings) ==
  [s EXCEPT !.voiceSettings = settings]

\* updateSettings
UpdateSettingsOp(s, settings) ==
  [s EXCEPT !.voiceSettings = Spread(@, settings)]

\* the arguments updateSettings() is called with: one field, two fields,
\* none, and the full record the control panel builds from getStatus()
PartialSettings ==
  { [rate |-> 120],
    [pitch |-> 80, volume |-> 50],
    <<>>,
    [rate |-> 90, pitch |-> 100, volume |-> 90, pauseBetween |-> 500] }

\* getStatus counting the utterance being spoken in queueLength
GetStatus_CountInFlight(s) ==
  [isInitialized |-> s.isInitialized,
   isSpeaking |-> s.isSpeaking,
   queueLength |-> Len(s.speechQueue) + (IF s.isSpeaking THEN 1 ELSE 0),
   currentVoice |-> IF s.currentVoice \notin {Null, Undefined}
                    THEN s.currentVoice.name ELSE Null,
   settings |-> s.voiceSettings]

\* getStatus
GetStatus(s) ==
  [isInitialized |-> s.isInitialized,
   isSpeaking |-> s.isSpeaking,
   queueLength |-> Len(s.speechQueue),
   currentVoice |-> IF s.currentVoice \notin {Null, Undefined}
                    THEN s.currentVoice.name ELSE Null,
   settings |-> s.voiceSettings]

\* getVoices (the voices of the model carry no default flag)
GetVoices(s) ==
  [i \in 1..Len(s.voices) |->
     [name |-> s.voices[i].name, lang |-> s.voices[i].lang,
      localService |-> s.voices[i].localService]]

(* ------------------------- coordination server ------------------------ *)

\* the size recentDetections is trimmed to, and the confidence (in
\* hundredths) a detection must exceed to become the current text
CacheLimit == 20
ConfidenceThreshold == 60

\* what axios.post(PYTHON_API_URL/detect) gives the handler: the body of
\* the Python API's answer, or the code of the error axios throws
\* (connection refused, timeout, an answer with an error status)
DetectReplies ==
  { [frame |-> TRUE, error |-> "", detected_gesture |-> "hello", confidence |-> 90],
    [frame |-> TRUE, error |-> "", detected_gesture |-> "hello", confidence |-> 50],
    [frame |-> TRUE, error |-> "", detected_gesture |-> "", confidence |-> 0],
    [frame |-> TRUE, error |-> "ECONNREFUSED", detected_gesture |-> "", confidence |-> 0],
    [frame |-> TRUE, error |-> "ECONNABORTED", detected_gesture |-> "", confidence |-> 0],
    [frame |-> TRUE, error |-> "ERR_BAD_RESPONSE", detected_gesture |-> "", confidence |-> 0] }

\* a request body without a frame
NoFrame ==
  [frame |-> FALSE, error |-> "", detected_gesture |-> "", confidence |-> 0]

\* what axios.get(PYTHON_API_URL/get_text) gives the handler
TextReplies ==
  { [error |-> "", text |-> "thanks", confidence |-> 95],
    [error |-> "", text |-> "thanks", confidence |-> 40],
    [error |-> "", text |-> "", confidence |-> 0],
    [error |-> "ECONNREFUSED", text |-> "", confidence |-> 0] }

\* recentDetections.push(entry) without the trimming that follows it
PushDetection_NoTrim(list, entry) == Append(list, entry)

\* recentDetections.push(entry), then one shift() when over the limit
PushDetection(list, entry) ==
  LET pushed == Append(list, entry)
  IN IF Len(pushed) > CacheLimit THEN Tail(pushed) ELSE pushed

\* the status the detect-sign handler answers with, after the Python API
\* replied r or axios threw
DetectStatus(r) ==
  IF r.error = "" THEN 200
  ELSE IF r.error = "ECONNREFUSED" THEN 503
  ELSE 500

\* the cache after the detect-sign handler ran on reply r at time now
DetectCache(cache, r, now) ==
  IF r.error # "" \/ r.detected_gesture = "" THEN cache
  ELSE LET c1 == [cache EXCEPT !.recentDetections =
                     PushDetection(@, [gesture |-> r.detected_gesture,
                                       confidence |-> r.confidence,
                                       timestamp |-> now])]
       IN IF r.confidence > ConfidenceThreshold
          THEN [c1 EXCEPT !.currentText = r.detected_gesture,
                          !.confidence = r.confidence,
                          !.lastUpdate = now]
          ELSE c1

\* the cache after the get-text handler ran on reply r at time now
GetTextCache(cache, r, now) ==
  IF r.error = "" /\ r.text # "" /\ r.confidence > cache.confidence
  THEN [cache EXCEPT !.currentText = r.text,
                     !.confidence = r.confidence,
                     !.lastUpdate = now]
  ELSE cache

\* the body the get-text handler answers with
GetTextBody(cache, r, now) ==
  LET c == GetTextCache(cache, r, now)
  IN IF r.error # ""
     THEN [text |-> c.currentText, confidence |-> c.confidence,
           last_update |-> c.lastUpdate, source |-> "cache_fallback"]
     ELSE [text |-> IF r.text # "" THEN r.text ELSE c.currentText,
           confidence |-> IF r.confidence # 0 THEN r.confidence ELSE c.confidence,
           last_update |-> c.lastUpdate,
           source |-> IF r.text # "" THEN "python_api" ELSE "cache"]

(* ------------------------- initial state ------------------------------ *)

\* detectionCache as the server module creates it, and as clear-cache
\* resets it
EmptyCache ==
  [recentDetections |-> <<>>, currentText |-> "", lastUpdate |-> 0,
   confidence |-> 0]

\* the useState initial values of TTSControlPanel
InitialPanel ==
  [status |-> [isInitialized |-> FALSE, isSpeaking |-> FALSE, queueLength |-> 0,
               currentVoice |-> Null,
               settings |-> [rate |-> 90, pitch |-> 100, volume |-> 90]],
   voices |-> <<>>]

\* the fields as the constructor sets them, before it calls initialize()
Constructed(c, h) ==
  [voices |-> <<>>, currentVoice |-> Null, isInitialized |-> FALSE,
   speechQueue |-> <<>>, isSpeaking |-> FALSE, voiceSettings |-> DefaultVoiceSettings,
   catalog |-> c, onvoiceschanged |-> h,
   engineQueue |-> <<>>, cancelled |-> 0, paused |-> FALSE,
   loops |-> <<>>, microtasks |-> <<>>, pauseTimers |-> 0, consoleError |-> FALSE,
   calls |-> <<>>, submitted |-> <<>>, discarded |-> {}]

\* the record of an operation: its name, its argument, its return value
Op(name, arg, ret) == [op |-> name, param |-> arg, result |-> ret]

\* new EnhancedTTSClient(): the engine's list is empty or loaded, and the
\* engine has an onvoiceschanged property (null) or has none
InitFrom(lists) ==
  \E c \in lists, h \in {-1, 0} :
    LET s == InitializeOp(Constructed(c, h), Null)
    IN /\ voices = s.voices
       /\ currentVoice = s.currentVoice
       /\ isInitialized = s.isInitialized
       /\ speechQueue = s.speechQueue
       /\ isSpeaking = s.isSpeaking
       /\ voiceSettings = s.voiceSettings
       /\ catalog = s.catalog
       /\ onvoiceschanged = s.onvoiceschanged
       /\ engineQueue = s.engineQueue
       /\ cancelled = s.cancelled
       /\ paused = s.paused
       /\ consoleError = s.consoleError
       /\ loops = s.loops
       /\ microtasks = s.microtasks
       /\ pauseTimers = s.pauseTimers
       /\ calls = s.calls
       /\ submitted = s.submitted
       /\ discarded = s.discarded
       /\ nInit = 0
       /\ nChanges = 0
       /\ lastOp = Op("new", 0, FALSE)
       /\ detectionCache = EmptyCache
       /\ pending = [detect |-> 0, getText |-> 0]
       /\ clock = 0
       /\ received = 0
       /\ panel = InitialPanel
       /\ pressed = [id |-> 0, late |-> FALSE, again |-> FALSE]

Init == InitFrom({<<>>} \cup Catalogs)

(* ------------------------------ actions ------------------------------- *)

\* a caller's speak(text, signType, priority)
Speak(text, signType, priority) ==
  /\ LET id == Len(calls) + 1
         speechItem == [id |-> id, text |-> text, signType |-> signType,
                        priority |-> priority]
         s == [Cur EXCEPT !.calls = Append(@, [text |-> text, signType |-> signType,
                                                priority |-> priority,
                                                init |-> isInitialized])]
     IN /\ Install(SpeakOp(s, speechItem))
        /\ lastOp' = Op("speak", id, FALSE)
  /\ UNCHANGED <<nInit, nChanges>>

\* the continuation of a speak() that awaited initialize(): runs as a
\* microtask once its promise is resolved
SpeakContinue ==
  /\ microtasks # <<>>
  /\ LET speechItem == Head(microtasks)
         s == [Cur EXCEPT !.microtasks = Tail(@)]
     IN /\ Install(SpeakBody(s, speechItem))
        /\ lastOp' = Op("speakContinue", speechItem.id, FALSE)
  /\ UNCHANGED <<nInit, nChanges>>

\* a caller's initialize() (start-coordination-server.js awaits one right
\* after the constructor)
Initialize ==
  /\ nInit < MaxInitCalls
  /\ nInit' = nInit + 1
  /\ Install(InitializeOp(Cur, Null))
  /\ lastOp' = Op("initialize", 0, FALSE)
  /\ UNCHANGED nChanges

\* setTimeout(loadVoices, 100) of initialize() call k fires
LoadVoicesTimer(k) ==
  /\ microtasks = <<>>
  /\ loops[k].timer
  /\ Install(LoadVoices([Cur EXCEPT !.loops[k].timer = FALSE], k))
  /\ lastOp' = Op("loadVoices", 0, FALSE)
  /\ UNCHANGED <<nInit, nChanges>>

\* the engine's voice list changes to c; a voiceschanged event calls the
\* registered handler, if any
VoicesChanged(c) ==
  /\ microtasks = <<>>
  /\ nChanges < MaxVoiceChanges
  /\ c # catalog
  /\ nChanges' = nChanges + 1
  /\ LET s == [Cur EXCEPT !.catalog = c]
     IN Install(IF onvoiceschanged > 0 THEN LoadVoices(s, onvoiceschanged) ELSE s)
  /\ lastOp' = Op("voiceschanged", 0, FALSE)
  /\ UNCHANGED nInit

\* the engine finishes the utterance it is speaking (it speaks none while
\* paused): its onend runs
UtteranceEnd ==
  /\ microtasks = <<>>
  /\ ~paused
  /\ engineQueue # <<>>
  /\ Install(OnEnd([Cur EXCEPT !.engineQueue = Tail(@)]))
  /\ lastOp' = Op("onend", 0, FALSE)
  /\ UNCHANGED <<nInit, nChanges>>

\* the engine fails the utterance it is speaking: its onerror runs
UtteranceError ==
  /\ microtasks = <<>>
  /\ engineQueue # <<>>
  /\ Install(OnError([Cur EXCEPT !.engineQueue = Tail(@)]))
  /\ lastOp' = Op("onerror", 0, FALSE)
  /\ UNCHANGED <<nInit, nChanges>>

\* the engine fires the end event of an utterance that cancel() removed
CancelledEnd ==
  /\ microtasks = <<>>
  /\ cancelled > 0
  /\ Install(OnEnd([Cur EXCEPT !.cancelled = @ - 1]))
  /\ lastOp' = Op("lateOnend", 0, FALSE)
  /\ UNCHANGED <<nInit, nChanges>>

\* the engine fires the error event ('interrupted', 'canceled') of an
\* utterance that cancel() removed
CancelledError ==
  /\ microtasks = <<>>
  /\ cancelled > 0
  /\ Install(OnError([Cur EXCEPT !.cancelled = @ - 1]))
  /\ lastOp' = Op("lateOnerror", 0, FALSE)
  /\ UNCHANGED <<nInit, nChanges>>

\* a setTimeout(processQueue, pauseBetween) set by onend fires
PauseTimer ==
  /\ microtasks = <<>>
  /\ pauseTimers > 0
  /\ Install(ProcessQueue([Cur EXCEPT !.pauseTimers = @ - 1]))
  /\ lastOp' = Op("timer", 0, FALSE)
  /\ UNCHANGED <<nInit, nChanges>>

\* a caller's stop()
Stop ==
  /\ Install(StopOp(Cur))
  /\ lastOp' = Op("stop", 0, FALSE)
  /\ UNCHANGED <<nInit, nChanges>>

\* a caller's setVoice(voiceName)
SetVoice(voiceName) ==
  /\ Install(SetVoiceOp(Cur, voiceName))
  /\ lastOp' = Op("setVoice", voiceName, SetVoiceRet(Cur, voiceName))
  /\ UNCHANGED <<nInit, nChanges>>

\* a caller's pause()
Pause ==
  /\ Install(PauseOp(Cur))
  /\ lastOp' = Op("pause", 0, FALSE)
  /\ UNCHANGED <<nInit, nChanges>>

\* a caller's resume()
Resume ==
  /\ Install(ResumeOp(Cur))
  /\ lastOp' = Op("resume", 0, FALSE)
  /\ UNCHANGED <<nInit, nChanges>>

\* a caller's updateSettings(settings)
UpdateSettings(settings) ==
  /\ Install(UpdateSettingsOp(Cur, settings))
  /\ lastOp' = Op("updateSettings", settings, FALSE)
  /\ UNCHANGED <<nInit, nChanges>>

\* a caller's getStatus()
GetStatusCall ==
  /\ Install(Cur)
  /\ lastOp' = Op("getStatus", 0, GetStatus(Cur))
  /\ UNCHANGED <<nInit, nChanges>>

\* the queue: up to MaxSpeak speak() calls, before and after the voices
\* load, with every engine event and timer; the voice list loads once and
\* the voice stays the one loadVoices selects; no signType (the queue
\* operations read none)
NextQueue ==
  \/ \E text \in Texts, signType \in {NullSign}, priority \in Priorities :
       /\ Len(calls) < MaxSpeak
       /\ isInitialized \/ Len(calls) < MaxEarlySpeak
       /\ Speak(text, signType, priority)
  \/ SpeakContinue
  \/ \E k \in 1..Len(loops) : LoadVoicesTimer(k)
  \/ (catalog = <<>> /\ VoicesChanged(CatalogA))
  \/ UtteranceEnd
  \/ UtteranceError
  \/ CancelledEnd
  \/ CancelledError
  \/ PauseTimer
  \/ Stop

SpecQueue == Init /\ [][NextQueue]_vars

\* the voice: every initialize() poll loop (the constructor's, explicit
\* ones, those of up to MaxVoiceSpeak speak() calls made before the client
\* is initialized), voice list changes and setVoice; the engine's utterance
\* events, which touch no voice field, are left out
NextVoice ==
  \/ \E text \in Texts, signType \in {NullSign}, priority \in {"normal"} :
       /\ Len(calls) < MaxVoiceSpeak
       /\ ~isInitialized
       /\ Speak(text, signType, priority)
  \/ SpeakContinue
  \/ Initialize
  \/ \E k \in 1..Len(loops) : LoadVoicesTimer(k)
  \/ \E c \in Catalogs : VoicesChanged(c)
  \/ \E voiceName \in VoiceNames : SetVoice(voiceName)

SpecVoice == Init /\ [][NextVoice]_vars

\* the voice list loads: the initialize() calls of the constructor, of a
\* caller and of speak(), their timers and the voiceschanged events, where
\* every pending setTimeout(loadVoices, 100) eventually fires, every
\* resolved promise's continuation runs, and an engine whose list is empty
\* eventually lists voices
NextLoad ==
  \/ \E text \in Texts, signType \in {NullSign}, priority \in {"normal"} :
       /\ Len(calls) < MaxVoiceSpeak
       /\ ~isInitialized
       /\ Speak(text, signType, priority)
  \/ SpeakContinue
  \/ Initialize
  \/ \E k \in 1..Len(loops) : LoadVoicesTimer(k)
  \/ \E c \in Catalogs : VoicesChanged(c)

SpecLoad ==
  /\ Init /\ [][NextLoad]_vars
  /\ WF_vars(\E k \in 1..Len(loops) : LoadVoicesTimer(k))
  /\ WF_vars(SpeakContinue)
  /\ WF_vars(catalog = <<>> /\ \E c \in Catalogs : VoicesChanged(c))

\* the engine never lists a voice: the poll loops of the constructor, of
\* explicit initialize() calls and of speak() calls, with the caller
\* operations that need no voice; every pending timer eventually fires
InitNoVoices == Init /\ catalog = <<>>

NextNoVoices ==
  \/ \E text \in Texts, signType \in {NullSign}, priority \in Priorities :
       /\ Len(calls) < MaxEarlySpeak
       /\ Speak(text, signType, priority)
  \/ Initialize
  \/ \E k \in 1..Len(loops) : LoadVoicesTimer(k)
  \/ Stop
  \/ Pause
  \/ Resume

SpecNoVoices ==
  /\ InitNoVoices /\ [][NextNoVoices]_vars
  /\ WF_vars(\E k \in 1..Len(loops) : LoadVoicesTimer(k))
  /\ WF_vars(NextNoVoices)

\* an initialized client: speak() calls, stop() and every engine event and
\* timer; the engine fires an end or error event for every utterance it
\* was given (those cancel() removed too) and every timer fires
InitLoaded == Init /\ isInitialized

NextLive ==
  \/ \E text \in Texts, signType \in {NullSign}, priority \in Priorities :
       /\ Len(calls) < MaxSpeak
       /\ Speak(text, signType, priority)
  \/ UtteranceEnd
  \/ UtteranceError
  \/ CancelledEnd
  \/ CancelledError
  \/ PauseTimer
  \/ Stop

SpecLive ==
  /\ InitLoaded /\ [][NextLive]_vars
  /\ WF_vars(UtteranceEnd \/ UtteranceError)
  /\ WF_vars(CancelledEnd \/ CancelledError)
  /\ WF_vars(PauseTimer)

\* the text handed to the engine: speak() on an initialized client with
\* each text and sign type, and the end of the utterance
NextEnhance ==
  \/ \E text \in EnhanceTexts, signType \in EnhanceSigns, priority \in {"normal"} :
       /\ Len(calls) < MaxEnhanceSpeak
       /\ Speak(text, signType, priority)
  \/ UtteranceEnd
  \/ PauseTimer

SpecEnhance == InitLoaded /\ [][NextEnhance]_vars

\* the control operations: pause, resume, updateSettings and getStatus
\* before and after the voices load, around up to MaxControlSpeak speak()
\* calls on the initialized client and the events of their utterances
NextControl ==
  \/ \E text \in Texts, signType \in {NullSign}, priority \in Priorities :
       /\ Len(calls) < MaxControlSpeak
       /\ isInitialized
       /\ Speak(text, signType, priority)
  \/ \E k \in 1..Len(loops) : LoadVoicesTimer(k)
  \/ (catalog = <<>> /\ VoicesChanged(CatalogA))
  \/ UtteranceEnd
  \/ UtteranceError
  \/ PauseTimer
  \/ Stop
  \/ Pause
  \/ Resume
  \/ \E settings \in PartialSettings : UpdateSettings(settings)
  \/ GetStatusCall

SpecControl == Init /\ [][NextControl]_vars

\* the sign types: speak() on an initialized client with a sign type of
\* each kind, updateSettings(), stop() and the events of the utterances
NextSign ==
  \/ \E text \in Texts, signType \in SignKinds, priority \in Priorities :
       /\ Len(calls) < MaxSignSpeak
       /\ Speak(text, signType, priority)
  \/ \E settings \in {[rate |-> 120], [pitch |-> 80, volume |-> 50]} :
       UpdateSettings(settings)
  \/ UtteranceEnd
  \/ UtteranceError
  \/ CancelledEnd
  \/ CancelledError
  \/ PauseTimer
  \/ Stop

SpecSign == InitLoaded /\ [][NextSign]_vars

\* voice selection: the constructor's initialize() on every list of the
\* pool (or on an empty list that becomes one of them, found by the
\* voiceschanged handler or the timer), and setVoice()
NextSelect ==
  \/ \E k \in 1..Len(loops) : LoadVoicesTimer(k)
  \/ \E c \in SelectCatalogs : (catalog = <<>> /\ VoicesChanged(c))
  \/ \E voiceName \in SelectNames : SetVoice(voiceName)

SpecSelect == InitFrom({<<>>} \cup SelectCatalogs) /\ [][NextSelect]_vars

(* ----------------------- coordination server ------------------------- *)

\* POST /api/detect-sign arrives: without a frame it is answered 400; with
\* one the handler posts it to the Python API and awaits the answer
DetectSign(frame) ==
  /\ clock + pending.detect < MaxDetect
  /\ pending.detect + pending.getText < MaxPending
  /\ IF frame
     THEN /\ pending' = [pending EXCEPT !.detect = @ + 1]
          /\ lastOp' = Op("detectSignAwait", 0, FALSE)
     ELSE /\ pending' = pending
          /\ lastOp' = Op("detectSign", NoFrame, 400)
  /\ UNCHANGED <<detectionCache, clock, received, panelVars, nInit, nChanges>>
  /\ InstallClient(Cur)

\* the Python API answers a pending detect-sign request with r, or axios
\* throws: the rest of the handler runs
DetectSignReply(r) ==
  /\ pending.detect > 0
  /\ pending' = [pending EXCEPT !.detect = @ - 1]
  /\ LET wrote == r.error = "" /\ r.detected_gesture # ""
         now == IF wrote THEN clock + 1 ELSE clock
     IN /\ clock' = now
        /\ detectionCache' = DetectCache(detectionCache, r, now)
  /\ lastOp' = Op("detectSign", r, DetectStatus(r))
  /\ UNCHANGED <<received, panelVars, nInit, nChanges>>
  /\ InstallClient(Cur)

\* GET /api/get-text arrives: the handler asks the Python API
GetText ==
  /\ received < MaxTextOrClear
  /\ pending.detect + pending.getText < MaxPending
  /\ received' = received + 1
  /\ pending' = [pending EXCEPT !.getText = @ + 1]
  /\ lastOp' = Op("getTextAwait", 0, FALSE)
  /\ UNCHANGED <<detectionCache, clock, panelVars, nInit, nChanges>>
  /\ InstallClient(Cur)

\* the Python API answers a pending get-text request with r, or axios throws
GetTextReply(r) ==
  /\ pending.getText > 0
  /\ pending' = [pending EXCEPT !.getText = @ - 1]
  /\ detectionCache' = GetTextCache(detectionCache, r, clock)
  /\ lastOp' = Op("getText", r, GetTextBody(detectionCache, r, clock))
  /\ UNCHANGED <<clock, received, panelVars, nInit, nChanges>>
  /\ InstallClient(Cur)

\* POST /api/clear-cache
ClearCache ==
  /\ received < MaxTextOrClear
  /\ received' = received + 1
  /\ detectionCache' = EmptyCache
  /\ lastOp' = Op("clearCache", 0, 200)
  /\ UNCHANGED <<pending, clock, panelVars, nInit, nChanges>>
  /\ InstallClient(Cur)

\* the coordination server alone (no page is open): its detect-sign,
\* get-text and clear-cache routes and the Python API's answers
InitServer == InitFrom({<<>>}) /\ onvoiceschanged = -1

NextServer ==
  \/ \E frame \in BOOLEAN : DetectSign(frame)
  \/ \E r \in DetectReplies :
       /\ (r.error = "" /\ r.detected_gesture # ""
            /\ r.confidence <= ConfidenceThreshold)
           => clock < MaxLowConfidence
       /\ DetectSignReply(r)
  \/ GetText
  \/ \E r \in TextReplies : GetTextReply(r)
  \/ ClearCache

SpecServer == InitServer /\ [][NextServer]_vars

(* --------------------------- control panel ---------------------------- *)

\* updateStatus, run when the panel mounts and by setInterval every second
UpdateStatus ==
  /\ panel' = [status |-> GetStatus(Cur),
               voices |-> IF isInitialized THEN GetVoices(Cur) ELSE panel.voices]
  /\ lastOp' = Op("updateStatus", 0, FALSE)
  /\ UNCHANGED <<pressed, serverVars, nInit, nChanges>>
  /\ InstallClient(Cur)

\* handlePause, the pause/play button
HandlePause ==
  /\ IF panel.status.isSpeaking
     THEN /\ InstallClient(PauseOp(Cur))
          /\ pressed' = [id |-> IF engineQueue # <<>> THEN Head(engineQueue).id ELSE 0,
                         late |-> ~isSpeaking \/ cancelled > 0,
                         again |-> /\ paused
                                   /\ engineQueue # <<>>
                                   /\ pressed.id = Head(engineQueue).id]
          /\ lastOp' = Op("handlePause", 0, "pause")
     ELSE /\ InstallClient(ResumeOp(Cur))
          /\ pressed' = [id |-> 0, late |-> FALSE, again |-> FALSE]
          /\ lastOp' = Op("handlePause", 0, "resume")
  /\ UNCHANGED <<panel, serverVars, nInit, nChanges>>

\* the panel on an initialized client: its polling and its pause/play and
\* stop buttons, speak() calls, and every engine event and timer
NextPanel ==
  \/ \E text \in Texts, signType \in {NullSign}, priority \in Priorities :
       /\ Len(calls) < MaxPanelSpeak
       /\ Speak(text, signType, priority)
  \/ UtteranceEnd
  \/ UtteranceError
  \/ CancelledEnd
  \/ CancelledError
  \/ PauseTimer
  \/ Stop
  \/ UpdateStatus
  \/ HandlePause

SpecPanel == InitLoaded /\ [][NextPanel]_vars

\* every operation and event of the program
Next ==
  \/ \E text \in Texts, signType \in SignTypes, priority \in Priorities :
       Speak(text, signType, priority)
  \/ SpeakContinue
  \/ Initialize
  \/ \E k \in 1..Len(loops) : LoadVoicesTimer(k)
  \/ \E c \in Catalogs : VoicesChanged(c)
  \/ UtteranceEnd
  \/ UtteranceError
  \/ CancelledEnd
  \/ CancelledError
  \/ PauseTimer
  \/ Stop
  \/ \E voiceName \in VoiceNames : SetVoice(voiceName)
  \/ Pause
  \/ Resume
  \/ \E settings \in PartialSettings : UpdateSettings(settings)
  \/ GetStatusCall
  \/ \E frame \in BOOLEAN : DetectSign(frame)
  \/ \E r \in DetectReplies : DetectSignReply(r)
  \/ GetText
  \/ \E r \in TextReplies : GetTextReply(r)
  \/ ClearCache
  \/ UpdateStatus
  \/ HandlePause

Spec == Init /\ [][Next]_vars

(* ------------------------------ claims -------------------------------- *)

\* the speak() call that has just returned was made on an initialized client
\* with priority 'urgent'
UrgentSpeakReturned ==
  /\ lastOp.op = "speak"
  /\ calls[Len(calls)].init
  /\ calls[Len(calls)].priority = "urgent"

\* call id was a speak(..., 'normal') on an initialized client
InitNormal(id) == calls[id].init /\ calls[id].priority = "normal"

\* call id was a speak(..., 'normal') made before initialization completed
EarlyNormal(id) == ~calls[id].init /\ calls[id].priority = "normal"

\* C1: at most one utterance handed to the engine is outstanding at any time,
\* and isSpeaking implies that exactly one is.
C1_AtMostOneOutstanding ==
  /\ Len(engineQueue) <= 1
  /\ isSpeaking => Len(engineQueue) = 1

\* C2: an end or error event of an utterance that cancel() removed changes
\* neither isSpeaking nor the queue, schedules no timer and submits nothing.
C2_LateCallbackNoOp ==
  [][lastOp'.op \in {"lateOnend", "lateOnerror"}
       => UNCHANGED <<isSpeaking, speechQueue, pauseTimers, submitted, engineQueue>>]_vars

C4_NormalOrder ==
  /\ \A i, j \in 1..Len(submitted) :
       (i < j /\ InitNormal(submitted[i]) /\ InitNormal(submitted[j]))
         => submitted[i] < submitted[j]
  /\ \A q \in 1..Len(speechQueue), j \in 1..Len(submitted) :
       (InitNormal(speechQueue[q].id) /\ InitNormal(submitted[j]))
         => submitted[j] < speechQueue[q].id
  /\ \A q, r \in 1..Len(speechQueue) :
       (q < r /\ InitNormal(speechQueue[q].id) /\ InitNormal(speechQueue[r].id))
         => speechQueue[q].id < speechQueue[r].id

\* three normal calls on an initialized client were played in turn, with
\* end and error events and an inter-utterance timer between them
W_C4 ==
  /\ submitted = <<1, 2, 3>>
  /\ \A id \in 1..3 : InitNormal(id)
  /\ pauseTimers = 0
  /\ cancelled = 0
  /\ discarded = {}
  /\ lastOp.op = "timer"

\* C5: normal speak() calls made before initialization completed are handed
\* to the engine in the order of the calls.
C5_EarlyOrder ==
  \A i, j \in 1..Len(submitted) :
    (i < j /\ EarlyNormal(submitted[i]) /\ EarlyNormal(submitted[j]))
      => submitted[i] < submitted[j]

\* C6: right after stop() getStatus() reports isSpeaking = false and
\* queueLength = 0, and the engine holds no utterance (cancel() was called).
C6_StopClears ==
  lastOp.op = "stop" =>
    /\ GetStatus(Cur).isSpeaking = FALSE
    /\ GetStatus(Cur).queueLength = 0
    /\ engineQueue = <<>>

\* stop() was called while an utterance was playing, an item was queued and
\* an inter-utterance timer was pending
W_C6 ==
  /\ lastOp.op = "stop"
  /\ cancelled > 0
  /\ discarded # {}
  /\ pauseTimers > 0

\* C7: stop() is idempotent: a second stop() right after a stop() changes
\* nothing.
C7_StopIdempotent ==
  lastOp.op = "stop" => StopOp(Cur) = Cur

\* stop() was called with two items queued behind a playing utterance
W_C7 ==
  /\ lastOp.op = "stop"
  /\ Cardinality(discarded) >= 2
  /\ cancelled > 0

C9_VoiceSelectedOnce ==
  [][(currentVoice # Null /\ lastOp'.op # "setVoice")
       => currentVoice' = currentVoice]_vars

\* C10: setVoice(name) with a name no entry of this.voices has returns false
\* and changes no field of the client (nor anything else).
C10_SetVoiceUnknown ==
  [][(/\ lastOp'.op = "setVoice"
      /\ \A i \in 1..Len(voices) : voices[i].name # lastOp'.param)
       => /\ lastOp'.result = FALSE
          /\ UNCHANGED <<clientVars, catalog, onvoiceschanged, engineQueue, cancelled,
                         paused, loops, microtasks, pauseTimers>>]_vars

\* setVoice("karen") was refused while the voice set by setVoice("Karen")
\* is held
W_C10 ==
  /\ lastOp.op = "setVoice"
  /\ lastOp.param = <<"k","a","r","e","n">>
  /\ lastOp.result = FALSE
  /\ voices = CatalogA
  /\ currentVoice = VoiceKaren

\* C11: when the engine never lists a voice, every initialize() call made
\* (the constructor's, explicit ones, those speak() awaits) eventually has
\* its promise settled instead of polling with it unresolved forever.  The
\* promise executor of initialize() takes resolve only, so settled is
\* resolved.
C11_InitializeCompletes ==
  <>(\A k \in 1..Len(loops) : loops[k].resolved)

\* C12: when a speak() call returns, its item is in the queue or was handed
\* to the engine, whether or not the client was initialized at the call.
C12_SpeakEnqueuesInCall ==
  lastOp.op = "speak" =>
    Len(calls) \in Ids(speechQueue) \cup Range(submitted)

UtterancesOf(text, signType) ==
  { i \in 1..Len(engineQueue) :
      /\ calls[engineQueue[i].id].text = text
      /\ calls[engineQueue[i].id].signType = signType }

\* C15 as stated: enhanceTextForSpeech("Hi. Bye!", null) is "Hi... Bye! ",
\* with one space between the ellipsis and "Bye".
C15_HiByeOneSpace ==
  \A i \in UtterancesOf(HiBye, NullSign) :
    engineQueue[i].text = <<"H","i",".",".","."," ","B","y","e","!"," ">>

\* C15 as amended: enhanceTextForSpeech("Hi. Bye!", null) is "Hi...  Bye! ":
\* the period becomes "... " and the space that followed it stays, so two
\* spaces separate the ellipsis from "Bye"; "!" becomes "! ".
C15_HiByeTwoSpaces ==
  \A i \in UtterancesOf(HiBye, NullSign) :
    engineQueue[i].text = <<"H","i",".",".","."," "," ","B","y","e","!"," ">>

\* speak("Hi. Bye!") with no sign type was handed to the engine
W_C15 ==
  /\ UtterancesOf(HiBye, NullSign) # {}
  /\ lastOp.op = "speak"

\* C16 as stated: enhanceTextForSpeech("I am happy.", "love") begins with
\* "I I am happy... you so much... " (one space after the first ellipsis).
C16_LoveOneSpace ==
  \A i \in UtterancesOf(IAmHappy, "love") :
    StartsWith(engineQueue[i].text,
               <<"I"," ","I"," ","a","m"," ","h","a","p","p","y",".",".","."," ",
                 "y","o","u"," ","s","o"," ","m","u","c","h",".",".","."," ">>)

\* C16 as amended: enhanceTextForSpeech("I am happy.", "love") is exactly
\* "I I am happy...  you so much... ": the template gives
\* "I I am happy. you so much.", then each period becomes "... ", the first
\* one keeping the template's space after it (two spaces before "you").
C16_LoveTwoSpaces ==
  \A i \in UtterancesOf(IAmHappy, "love") :
    engineQueue[i].text =
      <<"I"," ","I"," ","a","m"," ","h","a","p","p","y",".",".","."," "," ",
        "y","o","u"," ","s","o"," ","m","u","c","h",".",".","."," ">>

\* speak("I am happy.", "love") was handed to the engine with the rate,
\* pitch and volume of the 'love' context
W_C16 ==
  /\ UtterancesOf(IAmHappy, "love") # {}
  /\ \A i \in UtterancesOf(IAmHappy, "love") : engineQueue[i].rate = 75

\* C17: the event of an utterance that stop() or an urgent speak() cancelled
\* is never logged as a failure: the handler that runs for it does not call
\* console.error, even when the engine delivers the cancellation as an
\* error event.
C17_CancelNotLogged ==
  lastOp.op \in {"lateOnend", "lateOnerror"} => ~consoleError

\* C18: pause() and resume() change nothing but the engine's paused state:
\* isSpeaking, the queue, currentVoice, the settings, isInitialized and the
\* voice list stay as they were, and so do the engine's utterances, the
\* timers and the pending continuations.
C18_PauseResumeFrame ==
  [][lastOp'.op \in {"pause", "resume"} =>
       /\ paused' = (lastOp'.op = "pause")
       /\ UNCHANGED <<clientVars, catalog, onvoiceschanged, engineQueue, cancelled,
                      loops, microtasks, pauseTimers, calls, submitted, discarded>>]_vars

\* resume() was called after pause() while an utterance was in the engine
\* and an item waited in the queue
W_C18 ==
  /\ lastOp.op = "resume"
  /\ ~paused
  /\ isSpeaking
  /\ Len(speechQueue) = 1
  /\ Len(engineQueue) = 1

\* C19: getStatus() changes nothing and returns isInitialized, isSpeaking,
\* the length of the queue as queueLength, the name of currentVoice (null
\* when there is none) as currentVoice, and the settings.
C19_GetStatusSnapshot ==
  [][lastOp'.op = "getStatus" =>
       /\ UNCHANGED <<clientVars, catalog, onvoiceschanged, engineQueue, cancelled,
                      paused, loops, microtasks, pauseTimers, calls, submitted,
                      discarded>>
       /\ lastOp'.result.isInitialized = isInitialized
       /\ lastOp'.result.isSpeaking = isSpeaking
       /\ lastOp'.result.queueLength = Len(speechQueue)
       /\ lastOp'.result.currentVoice = (IF currentVoice = Null THEN Null
                                      ELSE currentVoice.name)
       /\ lastOp'.result.settings = voiceSettings
       /\ DOMAIN lastOp'.result =
            {"isInitialized", "isSpeaking", "queueLength", "currentVoice", "settings"}]_vars

\* getStatus() was called with an utterance being spoken, an item queued, a
\* voice held and a setting changed from its default
W_C19 ==
  /\ lastOp.op = "getStatus"
  /\ lastOp.result.isSpeaking
  /\ lastOp.result.queueLength = 1
  /\ currentVoice = VoiceAlex
  /\ lastOp.result.currentVoice = VoiceAlex.name
  /\ lastOp.result.settings.rate = 120

\* C20: updateSettings(partial) merges: every field partial names has
\* partial's value afterwards, every other field keeps its value, no field
\* is lost; the queue, isSpeaking and currentVoice are unchanged.
C20_UpdateSettingsMerges ==
  [][lastOp'.op = "updateSettings" =>
       /\ DOMAIN voiceSettings' = DOMAIN voiceSettings \cup DOMAIN lastOp'.param
       /\ \A f \in DOMAIN lastOp'.param : voiceSettings'[f] = lastOp'.param[f]
       /\ \A f \in DOMAIN voiceSettings \ DOMAIN lastOp'.param :
            voiceSettings'[f] = voiceSettings[f]
       /\ UNCHANGED <<speechQueue, isSpeaking, currentVoice>>]_vars

\* updateSettings({pitch, volume}) was called after updateSettings({rate})
\* with an utterance being spoken and an item queued: rate kept the value
\* of the first call
W_C20 ==
  /\ lastOp.op = "updateSettings"
  /\ lastOp.param = [pitch |-> 80, volume |-> 50]
  /\ voiceSettings = [rate |-> 120, pitch |-> 80, volume |-> 50, pauseBetween |-> 500]
  /\ isSpeaking
  /\ Len(speechQueue) = 1

\* the utterance a step has just handed to the engine
Built == engineQueue'[Len(engineQueue')]

\* C21: updateSettings() leaves the utterances the engine holds as they
\* are; every utterance built afterwards for an item without a configured
\* sign type has the rate, pitch and volume the settings have when it is
\* built, also when the item was queued before updateSettings() was called.
C21_SettingsAtBuildTime ==
  [][/\ lastOp'.op = "updateSettings" => engineQueue' = engineQueue
     /\ (Len(submitted') > Len(submitted) /\ ~HasContext(calls'[Built.id].signType))
          => /\ Built.rate = voiceSettings'.rate
             /\ Built.pitch = voiceSettings'.pitch
             /\ Built.volume = voiceSettings'.volume]_vars

\* the item queued behind an utterance built with the constructor's rate
\* was built, after that utterance ended, with the rate an updateSettings()
\* call had set in between
W_C21 ==
  /\ lastOp.op = "timer"
  /\ submitted = <<1, 2>>
  /\ Len(engineQueue) = 1
  /\ engineQueue[1].id = 2
  /\ engineQueue[1].rate = 120
  /\ engineQueue[1].pitch = 80
  /\ DefaultVoiceSettings.rate # 120

Occurrences(ids, id) == Cardinality({ i \in 1..Len(ids) : ids[i] = id })

\* the speak() calls whose item is not yet enqueued: awaiting initialize(),
\* or their continuation queued as a microtask
AwaitingIds ==
  [k \in 1..Len(loops) |-> IF loops[k].waiter # Null THEN loops[k].waiter.id ELSE 0]
    \o [i \in 1..Len(microtasks) |-> microtasks[i].id]

\* C23: every item handed to speak() is in exactly one condition, once: not
\* yet enqueued, waiting in the queue, handed to the engine, or discarded
\* from the queue by stop() or an urgent speak(); so none is handed to the
\* engine twice and none comes back into the queue.
C23_ItemInOneCondition ==
  \A id \in 1..Len(calls) :
    Occurrences(AwaitingIds, id)
      + Occurrences([i \in 1..Len(speechQueue) |-> speechQueue[i].id], id)
      + Occurrences(submitted, id)
      + (IF id \in discarded THEN 1 ELSE 0) = 1

\* the items a step takes from the queue to build their utterance: in the
\* queue before the step (or pushed by it), and afterwards neither in the
\* queue nor discarded
TakenIds ==
  { id \in 1..Len(calls') :
      /\ id \in Ids(speechQueue) \/ id > Len(calls)
      /\ id \notin Ids(speechQueue')
      /\ id \notin discarded' }

\* the rate, pitch and volume createUtterance is to give an item of this
\* sign type: those of its emotionalContexts entry if it is one of the eight
\* keys, those of the current settings otherwise
ExpectedAcoustics(signType) ==
  IF signType \in DOMAIN emotionalContexts
  THEN [rate |-> emotionalContexts[signType].rate,
        pitch |-> emotionalContexts[signType].pitch,
        volume |-> emotionalContexts[signType].volume]
  ELSE [rate |-> voiceSettings.rate, pitch |-> voiceSettings.pitch,
        volume |-> voiceSettings.volume]

\* C24: the utterance built for an item has the rate, pitch and volume of
\* the item's emotionalContexts entry when its sign type is one of the eight
\* keys, and those of the current settings for every other sign type (null,
\* or a tag that is not one of the keys).
C24_AcousticsByContext ==
  [][\A id \in TakenIds :
       \E i \in 1..Len(engineQueue') :
         /\ engineQueue'[i].id = id
         /\ [rate |-> engineQueue'[i].rate, pitch |-> engineQueue'[i].pitch,
             volume |-> engineQueue'[i].volume]
              = ExpectedAcoustics(calls'[id].signType)]_vars

\* voice i of the list contains preferred name k, letter case ignored
NameContains(vs, i, k) ==
  Includes(ToLowerCase(vs[i].name), ToLowerCase(preferredVoices[k]))

\* some voice of the list contains some preferred name
AnyPreferred(vs) ==
  \E i \in 1..Len(vs), k \in 1..Len(preferredVoices) : NameContains(vs, i, k)

\* the earliest preferred name that some voice of the list contains
EarliestPreferred(vs) ==
  CHOOSE k \in 1..Len(preferredVoices) :
    /\ \E i \in 1..Len(vs) : NameContains(vs, i, k)
    /\ \A k2 \in 1..(k - 1) : \A i \in 1..Len(vs) : ~NameContains(vs, i, k2)

\* loadVoices has just filled this.voices and run selectBestVoice
VoicesJustLoaded ==
  /\ lastOp.op \in {"new", "loadVoices", "voiceschanged"}
  /\ voices # <<>>

\* C25: on a list in which some voice name contains a preferred name (letter
\* case ignored), selectBestVoice picks by preference order first and list
\* order second: the first voice of the list that contains the earliest
\* preferred name contained in any voice, also when a later preferred name
\* is contained in an earlier voice.
C25_PreferenceOrderFirst ==
  (VoicesJustLoaded /\ AnyPreferred(voices)) =>
    \E i \in 1..Len(voices) :
      /\ NameContains(voices, i, EarliestPreferred(voices))
      /\ \A j \in 1..(i - 1) : ~NameContains(voices, j, EarliestPreferred(voices))
      /\ currentVoice = voices[i]

\* the list holds Karen, then the Google voice, then alex: the Google voice
\* was picked (first preferred name, as a part of a longer name), not the
\* first voice of the list, whose name is a later preferred name
W_C25 ==
  /\ VoicesJustLoaded
  /\ voices = <<VoiceKaren, VoiceGoogle, VoiceAlex>>
  /\ currentVoice = VoiceGoogle

\* C26: on a list in which no voice name contains a preferred name,
\* selectBestVoice picks the first voice whose language tag starts with
\* "en" and that is local, and the first voice of the list when there is
\* none; while the list is empty no voice is held.
C26_FallbackVoice ==
  /\ (VoicesJustLoaded /\ ~AnyPreferred(voices)) =>
       IF \E i \in 1..Len(voices) :
            StartsWith(voices[i].lang, <<"e","n">>) /\ voices[i].localService
       THEN \E i \in 1..Len(voices) :
              /\ StartsWith(voices[i].lang, <<"e","n">>) /\ voices[i].localService
              /\ \A j \in 1..(i - 1) :
                   ~(StartsWith(voices[j].lang, <<"e","n">>) /\ voices[j].localService)
              /\ currentVoice = voices[i]
       ELSE currentVoice = voices[1]
  /\ voices = <<>> => currentVoice = Null

\* the list holds Amelie (French), Fiona (English, not local) and Daniel
\* (English, local): Daniel was picked
W_C26 ==
  /\ VoicesJustLoaded
  /\ voices = <<VoiceAmelie, VoiceFiona, VoiceDaniel>>
  /\ currentVoice = VoiceDaniel

\* C27: setVoice(name) returns true exactly when this.voices has an entry
\* whose name is name, letter for letter, and then currentVoice is the first
\* such entry; otherwise currentVoice stays; while the list is not loaded it
\* returns false for every name.
C27_SetVoiceExactMatch ==
  [][lastOp'.op = "setVoice" =>
       /\ lastOp'.result = (\E i \in 1..Len(voices) : voices[i].name = lastOp'.param)
       /\ lastOp'.result =>
            \E i \in 1..Len(voices) :
              /\ voices[i].name = lastOp'.param
              /\ \A j \in 1..(i - 1) : voices[j].name # lastOp'.param
              /\ currentVoice' = voices[i]
       /\ ~lastOp'.result => currentVoice' = currentVoice
       /\ voices = <<>> => ~lastOp'.result]_vars

\* setVoice("Karen") on a list with two voices of that name took the first
\* of them, the second in the list
W_C27 ==
  /\ lastOp.op = "setVoice"
  /\ lastOp.result
  /\ voices = <<VoiceAmelie, VoiceKaren2, VoiceKaren>>
  /\ currentVoice = VoiceKaren2

\* the fixed text each configured sign type puts before and after the text
TonePrefix ==
  [hello |-> HelloThere, thank_you |-> <<>>, sorry |-> Im, help |-> INeed,
   please |-> <<>>, love |-> IPrefix, good |-> Thats, bad |-> Thats]
ToneSuffix ==
  [hello |-> <<>>, thank_you |-> ReallyAppreciate, sorry |-> PleaseForgive,
   help |-> CanYouHelp, please |-> WouldThatBePossible, love |-> YouSoMuch,
   good |-> Excellent, bad |-> ImWorried]

\* prefix + text + suffix for the eight sign types, the text itself otherwise
Wrapped(text, signType) ==
  IF signType \in DOMAIN TonePrefix
  THEN TonePrefix[signType] \o text \o ToneSuffix[signType]
  ELSE text

\* C28: the text handed to the engine is the punctuation expansion of the
\* wrapped text, and the wrapped text is, for each of the eight configured
\* sign types, its fixed prefix, the text of the call unchanged and once,
\* and its fixed suffix; for no sign type, an empty one or one that is not
\* configured it is the text of the call.
C28_ToneWrapsVerbatim ==
  \A i \in 1..Len(engineQueue) :
    engineQueue[i].text =
      ExpandPunctuation(Wrapped(calls[engineQueue[i].id].text,
                                calls[engineQueue[i].id].signType))

\* speak("Hi. Bye!", "thank_you") was handed to the engine with the
\* gratitude clause after the text, once
W_C28 ==
  /\ UtterancesOf(HiBye, "thank_you") # {}
  /\ \A i \in UtterancesOf(HiBye, "thank_you") :
       engineQueue[i].text = ExpandPunctuation(HiBye \o ReallyAppreciate)

RECURSIVE ExpandEach(_)
\* every character of str in place, "." as "... ", "!" as "! ", "?" as "? "
ExpandEach(str) ==
  IF str = <<>> THEN <<>>
  ELSE (CASE Head(str) = "." -> <<".", ".", ".", " ">>
          [] Head(str) = "!" -> <<"!", " ">>
          [] Head(str) = "?" -> <<"?", " ">>
          [] OTHER -> <<Head(str)>>) \o ExpandEach(Tail(str))

\* C29: the text handed to the engine is the tone-wrapped text with each
\* "." replaced by "... ", each "!" by "! " and each "?" by "? ", whether
\* the character came with the text or with the template, every other
\* character in place, and no period of an ellipsis expanded again.
C29_PunctuationExpandedOnce ==
  \A i \in 1..Len(engineQueue) :
    engineQueue[i].text =
      ExpandEach(IF HasContext(calls[engineQueue[i].id].signType)
                 THEN ToneTemplate(calls[engineQueue[i].id].text,
                                   ToneOf(calls[engineQueue[i].id].signType))
                 ELSE calls[engineQueue[i].id].text)

\* speak("No!?", "help") was handed to the engine as
\* "I need No! ? ...  Can you help me? "
W_C29 ==
  /\ UtterancesOf(<<"N","o","!","?">>, "help") # {}
  /\ \A i \in UtterancesOf(<<"N","o","!","?">>, "help") :
       engineQueue[i].text =
         <<"I"," ","n","e","e","d"," ","N","o","!"," ","?"," ",".",".","."," "," ",
           "C","a","n"," ","y","o","u"," ","h","e","l","p"," ","m","e","?"," ">>

\* a speak() call has just returned that was made on an initialized client
InitSpeakReturned ==
  /\ lastOp.op = "speak"
  /\ calls[Len(calls)].init

\* what C30 says of a speak() step: with isSpeaking false the item goes to
\* the tail and the head of the queue (the item itself only if the queue
\* was empty) is handed to the engine in the same step; with isSpeaking true
\* the item goes to the tail and nothing else changes
AppendThenStart ==
  IF ~isSpeaking
  THEN /\ isSpeaking'
       /\ Len(submitted') = Len(submitted) + 1
       /\ submitted'[Len(submitted')] =
            (IF speechQueue = <<>> THEN Len(calls') ELSE Head(speechQueue).id)
       /\ engineQueue'[Len(engineQueue')].id = submitted'[Len(submitted')]
       /\ Ids(speechQueue') = (Ids(speechQueue) \cup {Len(calls')})
                                \ {submitted'[Len(submitted')]}
       /\ speechQueue' # <<>> => speechQueue'[Len(speechQueue')].id = Len(calls')
  ELSE /\ Len(speechQueue') = Len(speechQueue) + 1
       /\ SubSeq(speechQueue', 1, Len(speechQueue)) = speechQueue
       /\ speechQueue'[Len(speechQueue')].id = Len(calls')
       /\ UNCHANGED <<isSpeaking, submitted, engineQueue, cancelled, discarded>>

UrgentSpeakBodyRan ==
  /\ lastOp.op \in {"speak", "speakContinue"}
  /\ calls[lastOp.param].priority = "urgent"

C32_NoLostWakeup ==
  (speechQueue # <<>> /\ ~isSpeaking) => pauseTimers > 0

\* an utterance has ended with two items waiting behind it: isSpeaking is
\* false, the items wait, and the timer that will start the first is pending
W_C32 ==
  /\ lastOp.op = "onend"
  /\ Len(speechQueue) = 2
  /\ ~isSpeaking
  /\ pauseTimers = 1
  /\ engineQueue = <<>>

\* C33: when the engine's voice list becomes non-empty and the timers fire,
\* every initialize() call made (the constructor's, explicit ones, those
\* of speak()) is eventually resolved, with isInitialized true, and stays
\* so, whichever call's loadVoices is the registered voiceschanged handler.
C33_EveryInitializeResolves ==
  <>[](isInitialized /\ \A k \in 1..Len(loops) : loops[k].resolved)

\* three initialize() calls were made on an empty list, the third is the
\* registered handler, and one of the others has just been resolved by its
\* own timer
W_C33 ==
  /\ Len(loops) = 3
  /\ onvoiceschanged = 3
  /\ lastOp.op = "loadVoices"
  /\ isInitialized
  /\ \A k \in 1..3 : loops[k].resolved
  /\ submitted # <<>>

\* C34: isInitialized implies that the loaded list is non-empty and that
\* currentVoice is an entry of a list the engine offered (never null or
\* undefined); isInitialized never returns to false; and an utterance is
\* handed to the engine only when isInitialized is true.
C34_InitializedMeansVoice ==
  /\ [](isInitialized =>
          /\ voices \in Catalogs
          /\ currentVoice \notin {Null, Undefined}
          /\ \E c \in Catalogs : currentVoice \in Range(c))
  /\ [][/\ isInitialized => isInitialized'
        /\ submitted' # submitted => (isInitialized /\ isInitialized')]_vars

\* a speak() made before the list loaded has been handed to the engine
\* after the list changed a second time: the client is initialized with
\* the second list and a voice of it
W_C34 ==
  /\ isInitialized
  /\ Len(calls) = 1
  /\ ~calls[1].init
  /\ submitted = <<1>>
  /\ voices = CatalogB
  /\ currentVoice \in Range(CatalogB)

\* C35: a POST /api/detect-sign that carries a frame is answered 200 when
\* the Python API answered and 503 whenever the call to it failed
\* (connection refused, timeout, any other failure), and with nothing else.
C35_OkOrUnavailable ==
  (lastOp.op = "detectSign" /\ lastOp.param.frame) =>
    lastOp.result = IF lastOp.param.error = "" THEN 200 ELSE 503

\* the last n entries of seq
LastN(seq, n) ==
  IF Len(seq) > n THEN SubSeq(seq, Len(seq) - n + 1, Len(seq)) ELSE seq

\* C36: recentDetections never holds more than 20 entries and holds them in
\* the order they were added; a detect-sign whose Python call answers with
\* a gesture appends one entry and keeps the 20 newest (the oldest goes
\* first), and a detect-sign that fails or comes back without a gesture
\* leaves the whole cache as it was.
C36_CacheKeepsNewest ==
  /\ []( /\ Len(detectionCache.recentDetections) <= CacheLimit
         /\ \A i \in 1..(Len(detectionCache.recentDetections) - 1) :
              detectionCache.recentDetections[i].timestamp
                < detectionCache.recentDetections[i + 1].timestamp )
  /\ [][lastOp'.op = "detectSign" =>
          IF lastOp'.result = 200 /\ lastOp'.param.detected_gesture # ""
          THEN /\ clock' > clock
               /\ detectionCache'.recentDetections =
                    LastN(Append(detectionCache.recentDetections,
                                 [gesture |-> lastOp'.param.detected_gesture,
                                  confidence |-> lastOp'.param.confidence,
                                  timestamp |-> clock']),
                          CacheLimit)
          ELSE detectionCache' = detectionCache]_vars

\* the twenty-first detection has just been cached: the cache is full and
\* its first entry is the second detection
W_C36 ==
  /\ lastOp.op = "detectSign"
  /\ lastOp.result = 200
  /\ clock = CacheLimit + 1
  /\ Len(detectionCache.recentDetections) = CacheLimit
  /\ detectionCache.recentDetections[1].timestamp = 2

\* the utterance the button last paused is still held, paused, by the engine
PausedInFlight ==
  /\ paused
  /\ pressed.id \in Ids(engineQueue)

====
